---- MODULE Spec2Model ----
(***************************************************************************)
(* A model of lightrag/storage.py: the key-value stores (JsonKVStorage,    *)
(* DuckDBStorage), the vector stores (NanoVectorDBStorage,                 *)
(* ChromaDBStorage) and the graph store (NetworkXStorage) with its         *)
(* canonicalizer (stable_largest_connected_component, _stabilize_graph).   *)
(*                                                                         *)
(* A Python dict is a function; d1.update(d2) is d2 @@ d1.  A Python str   *)
(* that the code compares, upper-cases, strips or unescapes is a sequence  *)
(* of character codes; a str the code only stores or looks up is a TLA+    *)
(* string.                                                                 *)
(***************************************************************************)
EXTENDS Integers, Sequences, FiniteSets, TLC

VARIABLES
    \* JsonKVStorage
    jsonData,        \* self._data
    jsonFile,        \* the file kv_store_<namespace>.json
    jsonOp,          \* the last call made on the instance
    jsonArg,         \* the argument of the last upsert
    jsonRet,         \* what the last call returned
    jsonRead,        \* the ids and fields of the last call, when it was a read
    jsonCheckpoint,  \* history: self._data as of the last index_done_callback
    \* DuckDBStorage
    duckTable,       \* the table kv_store
    duckData,        \* self._data, the rows fetched by __post_init__
    duckOpen,        \* the connection is open
    duckOp,
    duckArg,
    duckRet,
    duckRead,        \* the ids of the last call, when it was a read
    \* NanoVectorDBStorage / ChromaDBStorage (one instance)
    vecBackend,      \* the class of the instance: "nano" or "chroma"
    vecBatchSize,    \* self._max_batch_size
    vecMetaFields,   \* self.meta_fields
    vecStore,        \* the backing engine: id -> [doc, vector]
    vecPc,           \* "idle", or "gather" while upsert awaits asyncio.gather
    vecData,         \* the data of the current (or last) upsert, in dict order
    vecIds,          \* the local ids of the current ChromaDB upsert
    vecTasks,        \* the embedding call of each batch: pending, done, failed
    vecOrder,        \* the batches in the order their calls completed
    vecEmbedCalls,   \* history: the batches embedding_func was invoked with
    vecEngineCalls,  \* history: the entries handed to the engine's upsert
    vecRet,
    vecFault,        \* the backend failure met by the last upsert: "none" if none
    vecCollection,   \* the Chroma collection of the namespace exists
    vecQuery,        \* the last call, when it was a query: arguments and result
    \* NetworkXStorage
    graph,           \* self._graph
    graphOps,        \* the number of upserts made so far
    graphCall,       \* the last call made on the instance, with its arguments
    canon,           \* stable_largest_connected_component(self._graph), once called
    canon2           \* stable_largest_connected_component of that result

jsonVars == <<jsonData, jsonFile, jsonOp, jsonArg, jsonRet, jsonRead,
              jsonCheckpoint>>
duckVars == <<duckTable, duckData, duckOpen, duckOp, duckArg, duckRet, duckRead>>
vecVars == <<vecBackend, vecBatchSize, vecMetaFields, vecStore, vecPc, vecData,
             vecIds, vecTasks, vecOrder, vecEmbedCalls, vecEngineCalls, vecRet,
             vecFault, vecCollection, vecQuery>>
graphVars == <<graph, graphOps, graphCall, canon, canon2>>
vars == <<jsonVars, duckVars, vecVars, graphVars>>

notJson == <<duckVars, vecVars, graphVars>>
notDuck == <<jsonVars, vecVars, graphVars>>
notVec == <<jsonVars, duckVars, graphVars>>
notGraph == <<jsonVars, duckVars, vecVars>>

------------------------------------------------------------------------------
(* Helpers *)

Range(s) == {s[i] : i \in DOMAIN s}

EmptyDict == [k \in {} |-> 0]

\* What a call leaves the caller with: None, a value, or an exception.
None == [kind |-> "None"]

Value(v) == [kind |-> "value", value |-> v]

Raised == [kind |-> "raised"]

\* The arguments of a call that reads nothing.
NoRead == [ids |-> <<>>, fields |-> None]

------------------------------------------------------------------------------
(* Key-value records *)

Keys == {"k1", "k2"}

\* A record is a dict from field names to values; the empty record is one.
Records ==
    { EmptyDict,
      [content |-> "x"],
      [content |-> "y", meta |-> "m"] }

\* Every dict[str, dict] a caller can pass to upsert.
KVDicts == UNION {[S -> Records] : S \in SUBSET Keys}

\* The longest list of keys a caller passes to a read.
MaxKeys == 2

\* Every list of keys a caller can pass: keys may repeat.
KeyLists == UNION {[1..n -> Keys] : n \in 0..MaxKeys}

\* The fields argument of get_by_ids: None, or an allow-list.
FieldLists == {None, Value({}), Value({"content"})}

------------------------------------------------------------------------------
(* JsonKVStorage *)

\* A file that does not exist.
NoFile == [exists |-> FALSE, members |-> {}]

\* utils.write_json: the file holds the dict serialised as its (key, value)
\* members.
write_json(obj) ==
    [exists |-> TRUE, members |-> {<<k, obj[k]>> : k \in DOMAIN obj}]

\* utils.load_json: None when the file does not exist, else the parsed dict.
load_json(file) ==
    IF ~ file.exists THEN None
    ELSE Value([k \in {e[1] : e \in file.members} |->
                   (CHOOSE e \in file.members : e[1] = k)[2]])

\* load_json(self._file_name) or {}
LoadData(file) ==
    IF load_json(file) = None \/ load_json(file) = Value(EmptyDict)
    THEN EmptyDict
    ELSE load_json(file).value

JsonFiles == {NoFile} \cup {write_json(d) : d \in KVDicts}

JsonInit ==
    /\ jsonFile \in JsonFiles
    /\ jsonData = LoadData(jsonFile)
    /\ jsonOp = "__post_init__"
    /\ jsonArg = EmptyDict
    /\ jsonRet = None
    /\ jsonRead = NoRead
    /\ jsonCheckpoint = LoadData(jsonFile)

\* A faulty variant of LeftData: every entry of data counts as new.
LeftDataOverwrite(data, stored) == data

\* left_data = {k: v for k, v in data.items() if k not in self._data}
LeftData(data, stored) ==
    [k \in DOMAIN data \ DOMAIN stored |-> data[k]]

\* upsert(data)
JsonUpsert(data) ==
    LET left_data == LeftData(data, jsonData) IN
    /\ jsonData' = left_data @@ jsonData
    /\ jsonRet' = Value(left_data)
    /\ jsonOp' = "upsert"
    /\ jsonArg' = data
    /\ jsonRead' = NoRead
    /\ UNCHANGED <<jsonFile, jsonCheckpoint>>

\* A faulty variant of JsonDrop: drop also writes the (now empty) dict to the file.
JsonDropAndWrite ==
    /\ jsonData' = EmptyDict
    /\ jsonFile' = write_json(EmptyDict)
    /\ jsonRet' = None
    /\ jsonOp' = "drop"
    /\ jsonRead' = NoRead
    /\ UNCHANGED <<jsonArg, jsonCheckpoint>>

\* drop()
JsonDrop ==
    /\ jsonData' = EmptyDict
    /\ jsonRet' = None
    /\ jsonOp' = "drop"
    /\ jsonRead' = NoRead
    /\ UNCHANGED <<jsonFile, jsonArg, jsonCheckpoint>>

\* index_done_callback()
JsonIndexDone ==
    /\ jsonFile' = write_json(jsonData)
    /\ jsonCheckpoint' = jsonData
    /\ jsonRet' = None
    /\ jsonOp' = "index_done_callback"
    /\ jsonRead' = NoRead
    /\ UNCHANGED <<jsonData, jsonArg>>

\* The process dies and a new JsonKVStorage is constructed on the namespace:
\* __post_init__ reads the file again.
JsonRestart ==
    /\ jsonData' = LoadData(jsonFile)
    /\ jsonRet' = None
    /\ jsonOp' = "restart"
    /\ jsonRead' = NoRead
    /\ UNCHANGED <<jsonFile, jsonArg, jsonCheckpoint>>

\* self._data.get(id, None)
DictGet(dict, id) == IF id \in DOMAIN dict THEN Value(dict[id]) ELSE None

\* Python's truth value of what dict.get returned: None and {} are false.
Truthy(got) == got # None /\ got.value # EmptyDict

\* A read leaves the instance as it is.
JsonReturn(op, ids, fields, ret) ==
    /\ jsonOp' = op
    /\ jsonRead' = [ids |-> ids, fields |-> fields]
    /\ jsonRet' = ret
    /\ UNCHANGED <<jsonData, jsonFile, jsonArg, jsonCheckpoint>>

\* all_keys(): the keys of self._data (their order is not modelled).
JsonAllKeys == JsonReturn("all_keys", <<>>, None, Value(DOMAIN jsonData))

\* get_by_id(id)
JsonGetById(id) == JsonReturn("get_by_id", <<id>>, None, DictGet(jsonData, id))

\* The entry get_by_ids builds for one id.
JsonGetEntry(data, id, fields) ==
    IF fields = None
    THEN DictGet(data, id)
    ELSE IF Truthy(DictGet(data, id))
         THEN Value([k \in DOMAIN data[id] \cap fields.value |-> data[id][k]])
         ELSE None

\* get_by_ids(ids, fields)
JsonGetByIds(ids, fields) ==
    JsonReturn("get_by_ids", ids, fields,
               Value([i \in DOMAIN ids |-> JsonGetEntry(jsonData, ids[i], fields)]))

\* filter_keys(data)
JsonFilterKeys(data) ==
    JsonReturn("filter_keys", data, None,
               Value({s \in Range(data) : s \notin DOMAIN jsonData}))

JsonNext ==
    \/ \E data \in KVDicts : JsonUpsert(data) /\ UNCHANGED notJson
    \/ JsonDrop /\ UNCHANGED notJson
    \/ JsonIndexDone /\ UNCHANGED notJson
    \/ JsonRestart /\ UNCHANGED notJson

\* The reads.
JsonReadNext ==
    \/ JsonAllKeys /\ UNCHANGED notJson
    \/ \E id \in Keys : JsonGetById(id) /\ UNCHANGED notJson
    \/ \E ids \in KeyLists, fields \in FieldLists :
          JsonGetByIds(ids, fields) /\ UNCHANGED notJson
    \/ \E data \in KeyLists : JsonFilterKeys(data) /\ UNCHANGED notJson

------------------------------------------------------------------------------
(* DuckDBStorage *)

\* kv_store after DROP TABLE.
NoTable == [exists |-> FALSE, rows |-> EmptyDict]

\* kv_store holding the given rows (key -> value).
Table(rows) == [exists |-> TRUE, rows |-> rows]

\* SELECT * FROM kv_store: the rows, each a (key, value) tuple.
Rows(table) == {<<k, table.rows[k]>> : k \in DOMAIN table.rows}

DuckInit ==
    /\ duckTable \in {Table(d) : d \in KVDicts}
    /\ duckData = Rows(duckTable)
    /\ duckOpen = TRUE
    /\ duckOp = "__post_init__"
    /\ duckArg = EmptyDict
    /\ duckRet = None
    /\ duckRead = <<>>

\* Python's `s == row` for a str s and a tuple row: never equal.
StrEqualsRow(s, row) == FALSE

\* filter_keys: set([s for s in data if s not in self._data]), self._data
\* being the list of row tuples fetched at construction.
DuckFilterKeys(keys, data, table) ==
    {s \in keys : ~ \E row \in data : StrEqualsRow(s, row)}

\* INSERT ... ON CONFLICT(key) DO UPDATE SET value = excluded.value, for every
\* item of data.
DuckInsertOrUpdate(table, data) == Table(data @@ table.rows)

\* upsert(data)
DuckUpsert(data) ==
    /\ duckOp' = "upsert"
    /\ duckArg' = data
    /\ duckRead' = <<>>
    /\ IF duckOpen /\ duckTable.exists
       THEN LET table1 == DuckInsertOrUpdate(duckTable, data)
                existing_keys == DuckFilterKeys(DOMAIN data, duckData, table1)
                left_data == [k \in DOMAIN data \ existing_keys |-> data[k]]
            IN /\ duckTable' = table1
               /\ duckRet' = Value(left_data)
       ELSE \* the connection is closed: the first execute raises
            /\ duckRet' = IF data = EmptyDict THEN Value(EmptyDict) ELSE Raised
            /\ UNCHANGED duckTable
    /\ UNCHANGED <<duckData, duckOpen>>

\* drop(): DROP TABLE IF EXISTS, then close the connection.
DuckDrop ==
    /\ duckOp' = "drop"
    /\ duckRead' = <<>>
    /\ IF duckOpen
       THEN /\ duckTable' = NoTable
            /\ duckOpen' = FALSE
            /\ duckRet' = None
       ELSE /\ duckRet' = Raised
            /\ UNCHANGED <<duckTable, duckOpen>>
    /\ UNCHANGED <<duckData, duckArg>>

\* A read leaves the table and the connection as they are.
DuckReturn(op, ids, ret) ==
    /\ duckOp' = op
    /\ duckRead' = ids
    /\ duckRet' = ret
    /\ UNCHANGED <<duckTable, duckData, duckOpen, duckArg>>

\* all_keys(): SELECT key FROM kv_store; a closed connection raises.
DuckAllKeys ==
    DuckReturn("all_keys", <<>>,
               IF duckOpen /\ duckTable.exists
               THEN Value(DOMAIN duckTable.rows) ELSE Raised)

\* get_by_id(id): SELECT value FROM kv_store WHERE key = ?
DuckGetById(id) ==
    DuckReturn("get_by_id", <<id>>,
               IF duckOpen /\ duckTable.exists
               THEN DictGet(duckTable.rows, id) ELSE Raised)

\* filter_keys(data), called by the user of the store.
DuckFilterKeysCall(data) ==
    DuckReturn("filter_keys", data,
               Value(DuckFilterKeys(Range(data), duckData, duckTable)))

DuckNext ==
    \/ \E data \in KVDicts : DuckUpsert(data) /\ UNCHANGED notDuck
    \/ DuckDrop /\ UNCHANGED notDuck
    \/ DuckAllKeys /\ UNCHANGED notDuck
    \/ \E id \in Keys : DuckGetById(id) /\ UNCHANGED notDuck
    \/ \E data \in KeyLists : DuckFilterKeysCall(data) /\ UNCHANGED notDuck

------------------------------------------------------------------------------
(* The vector stores: NanoVectorDBStorage and ChromaDBStorage *)

\* The largest embedding_batch_num and the most records of one upsert.
MaxBatch == 2
MaxItems == 2

\* The ids of the vector records, in the order a data dict lists them.
VecIdSeq == <<"v1", "v2", "v3">>

\* The content strings; the stub embedding tells them apart by their length.
Contents == {"a", "bb"}

Min(a, b) == IF a < b THEN a ELSE b

RECURSIVE Concat(_)
\* np.concatenate(list of arrays) / joining lists end to end
Concat(ss) == IF ss = <<>> THEN <<>> ELSE Head(ss) \o Concat(Tail(ss))

\* Every data: dict[str, dict] of at most MaxItems items, as the sequence of
\* its items in dict order; every value holds a content.  The ids are only
\* compared for equality, so the dicts list them in the order of VecIdSeq.
VecDatas ==
    UNION { {[i \in DOMAIN ks |-> [id |-> ks[i], value |-> [content |-> cs[i]]]] :
               cs \in [DOMAIN ks -> Contents]} :
            ks \in {SelectSeq(VecIdSeq, LAMBDA id : id \in S) :
                      S \in {T \in SUBSET Range(VecIdSeq) :
                                Cardinality(T) <= MaxItems}} }

\* The caller's embedding function on one batch: the stub embed(s) = [len(s)].
EmbeddingFunc(batch) == [i \in DOMAIN batch |-> <<Len(batch[i])>>]

\* {k1: v1 for k1, v1 in v.items() if k1 in self.meta_fields}
MetaOf(v, meta_fields) == [k1 \in DOMAIN v \cap meta_fields |-> v[k1]]

\* contents = [v["content"] for v in data.values()]
ContentsOf(data) == [i \in DOMAIN data |-> data[i].value.content]

\* batches = [contents[i : i + size] for i in range(0, len(contents), size)]
Batches(contents, size) ==
    LET n == Len(contents)
        nb == (n + size - 1) \div size
    IN [j \in 1..nb |->
          SubSeq(contents, (j - 1) * size + 1, Min(j * size, n))]

\* A faulty variant of GatherResults: the results in the order the calls completed.
GatherResultsAsCompleted(batches, order) ==
    [j \in DOMAIN batches |-> EmbeddingFunc(batches[order[j]])]

\* What asyncio.gather returns once every call is done: the results in the
\* order of the awaitables, whatever the order they completed in.
GatherResults(batches, order) ==
    [j \in DOMAIN batches |-> EmbeddingFunc(batches[j])]

\* The documents the two engines keep.
MetaDoc(d) == [kind |-> "meta", fields |-> d]
JsonDoc(d) == [kind |-> "json", fields |-> d]     \* json.dumps(d)
TextDoc(c) == [kind |-> "text", fields |-> [content |-> c]]

\* The last call was no query.
NoQuery == [text |-> "", top_k |-> 0, ret |-> None]

Entry(id, doc, vector) == [id |-> id, doc |-> doc, vector |-> vector]

\* The engine's upsert of a list of entries: each id is inserted or replaced.
RECURSIVE EngineUpsert(_, _)
EngineUpsert(store, entries) ==
    IF entries = <<>> THEN store
    ELSE LET e == Head(entries) IN
         EngineUpsert((e.id :> [doc |-> e.doc, vector |-> e.vector]) @@ store,
                      Tail(entries))

VecInit ==
    /\ vecBackend \in {"nano", "chroma"}
    /\ vecBatchSize \in 1..MaxBatch
    /\ vecMetaFields \in {{}, {"content"}}
    /\ vecStore = EmptyDict
    /\ vecPc = "idle"
    /\ vecData = <<>>
    /\ vecIds = <<>>
    /\ vecTasks = <<>>
    /\ vecOrder = <<>>
    /\ vecEmbedCalls = <<>>
    /\ vecEngineCalls = <<>>
    /\ vecRet = None
    /\ vecFault = "none"
    /\ vecCollection = FALSE
    /\ vecQuery = NoQuery

\* A faulty variant of VecUpsertEmpty: no early return, so np.concatenate([]) raises.
VecUpsertEmptyNoReturn ==
    /\ vecPc = "idle"
    /\ vecData' = <<>>
    /\ vecRet' = Raised
    /\ vecEmbedCalls' = <<>>
    /\ vecEngineCalls' = <<>>
    /\ vecTasks' = <<>>
    /\ vecOrder' = <<>>
    /\ vecIds' = <<>>
    /\ vecFault' = "none"
    /\ vecQuery' = NoQuery
    /\ UNCHANGED vecCollection
    /\ UNCHANGED <<vecBackend, vecBatchSize, vecMetaFields, vecStore, vecPc>>

\* upsert({}) of either class: if not len(data): ... return []
VecUpsertEmpty ==
    /\ vecPc = "idle"
    /\ vecData' = <<>>
    /\ vecRet' = Value(<<>>)
    /\ vecEmbedCalls' = <<>>
    /\ vecEngineCalls' = <<>>
    /\ vecTasks' = <<>>
    /\ vecOrder' = <<>>
    /\ vecIds' = <<>>
    /\ vecFault' = "none"
    /\ vecQuery' = NoQuery
    /\ UNCHANGED vecCollection
    /\ UNCHANGED <<vecBackend, vecBatchSize, vecMetaFields, vecStore, vecPc>>

\* The batches are built and every embedding call is created and handed to
\* asyncio.gather, which the upsert then awaits.
StartGather(data) ==
    LET batches == Batches(ContentsOf(data), vecBatchSize) IN
    /\ vecPc' = "gather"
    /\ vecTasks' = [j \in DOMAIN batches |-> "pending"]
    /\ vecOrder' = <<>>
    /\ vecEmbedCalls' = batches
    /\ vecEngineCalls' = <<>>
    /\ vecRet' = None

\* NanoVectorDBStorage.upsert(data), data not empty, up to the await.
NanoUpsertStart(data) ==
    /\ vecBackend = "nano"
    /\ vecPc = "idle"
    /\ data # <<>>
    /\ vecData' = data
    /\ vecIds' = <<>>
    /\ StartGather(data)
    /\ vecFault' = "none"
    /\ vecQuery' = NoQuery
    /\ UNCHANGED vecCollection
    /\ UNCHANGED <<vecBackend, vecBatchSize, vecMetaFields, vecStore>>

\* missing_ids = [id for id in ids if id not in existing_ids]
MissingIds(data, store) ==
    LET ids == [i \in DOMAIN data |-> data[i].id] IN
    SelectSeq(ids, LAMBDA id : id \notin DOMAIN store)

\* ChromaDBStorage.upsert(data), data not empty, up to the await (or to the
\* return before it).  collection_ok: get_or_create_collection succeeded.
ChromaUpsertStart(data, collection_ok) ==
    /\ vecBackend = "chroma"
    /\ vecPc = "idle"
    /\ data # <<>>
    /\ vecData' = data
    /\ IF ~ collection_ok
       THEN \* except Exception: ... return []
            /\ vecRet' = Value(<<>>)
            /\ vecIds' = <<>>
            /\ vecTasks' = <<>>
            /\ vecOrder' = <<>>
            /\ vecEmbedCalls' = <<>>
            /\ vecEngineCalls' = <<>>
            /\ UNCHANGED vecPc
       ELSE IF MissingIds(data, vecStore) = <<>>
       THEN \* "No new data to upsert.": return ids
            /\ vecRet' = Value([i \in DOMAIN data |-> data[i].id])
            /\ vecIds' = <<>>
            /\ vecTasks' = <<>>
            /\ vecOrder' = <<>>
            /\ vecEmbedCalls' = <<>>
            /\ vecEngineCalls' = <<>>
            /\ UNCHANGED vecPc
       ELSE /\ vecIds' = MissingIds(data, vecStore)
            /\ StartGather(data)
    /\ vecFault' = IF collection_ok THEN "none" ELSE "collection"
    /\ vecCollection' = (vecCollection \/ collection_ok)
    /\ vecQuery' = NoQuery
    /\ UNCHANGED <<vecBackend, vecBatchSize, vecMetaFields, vecStore>>

\* A faulty variant of EmbedFail: the failure is kept as a result (return_exceptions)
\* and the upsert goes on waiting.
EmbedFailKept(b) ==
    /\ vecPc = "gather"
    /\ b \in DOMAIN vecTasks
    /\ vecTasks[b] = "pending"
    /\ vecTasks' = [vecTasks EXCEPT ![b] = "failed"]
    /\ vecOrder' = Append(vecOrder, b)
    /\ UNCHANGED <<vecFault, vecCollection, vecQuery>>
    /\ UNCHANGED <<vecBackend, vecBatchSize, vecMetaFields, vecStore, vecPc,
                   vecData, vecIds, vecEmbedCalls, vecEngineCalls, vecRet>>

\* The embedding call of batch b completes with its vectors.
EmbedDone(b) ==
    /\ vecPc = "gather"
    /\ b \in DOMAIN vecTasks
    /\ vecTasks[b] = "pending"
    /\ vecTasks' = [vecTasks EXCEPT ![b] = "done"]
    /\ vecOrder' = Append(vecOrder, b)
    /\ UNCHANGED <<vecFault, vecCollection, vecQuery>>
    /\ UNCHANGED <<vecBackend, vecBatchSize, vecMetaFields, vecStore, vecPc,
                   vecData, vecIds, vecEmbedCalls, vecEngineCalls, vecRet>>

\* The embedding call of batch b raises: asyncio.gather raises it in the
\* awaiting upsert, which has no handler around the await.
EmbedFail(b) ==
    /\ vecPc = "gather"
    /\ b \in DOMAIN vecTasks
    /\ vecTasks[b] = "pending"
    /\ vecTasks' = [vecTasks EXCEPT ![b] = "failed"]
    /\ vecOrder' = Append(vecOrder, b)
    /\ vecPc' = "idle"
    /\ vecRet' = Raised
    /\ UNCHANGED <<vecFault, vecCollection, vecQuery>>
    /\ UNCHANGED <<vecBackend, vecBatchSize, vecMetaFields, vecStore,
                   vecData, vecIds, vecEmbedCalls, vecEngineCalls>>

AllDone == \A b \in DOMAIN vecTasks : vecTasks[b] = "done"

\* embeddings = np.concatenate(embeddings_list)
Embeddings == Concat(GatherResults(vecEmbedCalls, vecOrder))

\* NanoVectorDBStorage.upsert after the await: the vectors are attached to
\* list_data by position and the list is handed to the client.
NanoUpsertFinish ==
    /\ vecBackend = "nano"
    /\ vecPc = "gather"
    /\ AllDone
    /\ LET embeddings == Embeddings
           list_data == [i \in DOMAIN vecData |->
                           Entry(vecData[i].id,
                                 MetaDoc(MetaOf(vecData[i].value, vecMetaFields)),
                                 embeddings[i])]
           ids == [i \in DOMAIN vecData |-> vecData[i].id]
       IN /\ vecEngineCalls' = <<list_data>>
          /\ vecStore' = EngineUpsert(vecStore, list_data)
          /\ vecRet' = Value([update |-> SelectSeq(ids, LAMBDA id : id \in DOMAIN vecStore),
                              insert |-> SelectSeq(ids, LAMBDA id : id \notin DOMAIN vecStore)])
    /\ vecPc' = "idle"
    /\ UNCHANGED <<vecFault, vecCollection, vecQuery>>
    /\ UNCHANGED <<vecBackend, vecBatchSize, vecMetaFields, vecData, vecIds,
                   vecTasks, vecOrder, vecEmbedCalls>>

\* ChromaDBStorage.upsert after the await.  fail_at is the engine call that
\* fails (0: none does).
ChromaUpsertFinish(fail_at) ==
    /\ vecBackend = "chroma"
    /\ vecPc = "gather"
    /\ AllDone
    /\ LET embeddings == Embeddings
           n == Len(vecData)
           contents == ContentsOf(vecData)
       IN IF vecMetaFields # {}
          THEN \* one engine upsert per element of list_data, with ids[i]
               LET one(i) == <<Entry(vecIds[i],
                                     JsonDoc(MetaOf(vecData[i].value, vecMetaFields)),
                                     embeddings[i])>>
                   \* the calls made before ids[i] or the engine raises
                   stop == IF fail_at = 0 THEN Len(vecIds) + 1
                           ELSE Min(fail_at, Len(vecIds) + 1)
                   made == Min(stop - 1, n)
                   calls == [i \in 1..made |-> one(i)]
               IN /\ fail_at \in 0..Min(n, Len(vecIds))
                  /\ vecEngineCalls' = calls
                  /\ vecStore' = EngineUpsert(vecStore, Concat(calls))
                  /\ vecRet' = IF made = n THEN Value(vecIds) ELSE Value(<<>>)
          ELSE \* one engine upsert of ids, contents and embeddings
               LET entries == [i \in 1..n |->
                                 Entry(vecIds[i], TextDoc(contents[i]), embeddings[i])]
               IN /\ fail_at \in 0..(IF Len(vecIds) = n THEN 1 ELSE 0)
                  /\ IF Len(vecIds) = n /\ fail_at = 0
                     THEN /\ vecEngineCalls' = <<entries>>
                          /\ vecStore' = EngineUpsert(vecStore, entries)
                          /\ vecRet' = Value(vecIds)
                     ELSE \* the lengths differ (the client rejects the call)
                          \* or the engine fails: the call raises, nothing is
                          \* written, and upsert returns []
                          /\ vecEngineCalls' = <<>>
                          /\ vecStore' = vecStore
                          /\ vecRet' = Value(<<>>)
    /\ vecPc' = "idle"
    /\ vecFault' = IF fail_at = 0 THEN "none" ELSE "engine"
    /\ UNCHANGED <<vecCollection, vecQuery>>
    /\ UNCHANGED <<vecBackend, vecBatchSize, vecMetaFields, vecData, vecIds,
                   vecTasks, vecOrder, vecEmbedCalls>>

\* cosine_better_than_threshold: float = 0.2, in hundredths.
cosine_better_than_threshold == 20

\* The largest top_k of a query.
MaxTopK == 2

\* The texts of the queries; the stub embedding tells them apart by length.
Queries == {"ccc", "dddd"}

\* The cosine similarity of two stub embeddings, in hundredths: the stub
\* vectors [n] stand for directions whose similarity falls with the
\* difference of the lengths: 1.0, 0.9, 0.5 and then 0.1.
CosineSimilarity(u, v) ==
    LET d == IF u[1] < v[1] THEN v[1] - u[1] ELSE u[1] - v[1]
    IN CASE d = 0 -> 100
         [] d = 1 -> 90
         [] d = 2 -> 50
         [] OTHER -> 10

\* What the engine's nearest-neighbour search can return: the k stored ids
\* (all of them if there are fewer) most similar to the query vector, best
\* first; ids of equal similarity come in either order.
NearestIds(store, embedding, k) ==
    LET m == Min(k, Cardinality(DOMAIN store))
        sim(id) == CosineSimilarity(store[id].vector, embedding)
    IN {r \in [1..m -> DOMAIN store] :
          /\ \A i, j \in 1..m : i < j => (r[i] # r[j] /\ sim(r[i]) >= sim(r[j]))
          /\ \A id \in DOMAIN store \ Range(r) :
                \A i \in 1..m : sim(id) <= sim(r[i])}

\* A query leaves the store and the state of the last upsert as they are.
VecQueryReturn(query, top_k, ret) ==
    /\ vecPc = "idle"
    /\ vecQuery' = [text |-> query, top_k |-> top_k, ret |-> ret]
    /\ UNCHANGED <<vecBackend, vecBatchSize, vecMetaFields, vecStore, vecPc,
                   vecData, vecIds, vecTasks, vecOrder, vecEmbedCalls,
                   vecEngineCalls, vecRet, vecFault, vecCollection>>

\* NanoVectorDBStorage.query(query, top_k): the client returns the top_k
\* nearest, best first, up to the first whose similarity is below
\* better_than_threshold; "distance" is the client's metric, the similarity.
NanoQuery(query, top_k) ==
    /\ vecBackend = "nano"
    /\ LET embedding == EmbeddingFunc(<<query>>)[1]
           sim(id) == CosineSimilarity(vecStore[id].vector, embedding)
       IN \E nearest \in NearestIds(vecStore, embedding, top_k) :
            LET results == SelectSeq(nearest,
                             LAMBDA id : sim(id) >= cosine_better_than_threshold)
            IN VecQueryReturn(query, top_k,
                 Value([i \in DOMAIN results |->
                          [id |-> results[i], distance |-> sim(results[i])]]))

\* ChromaDBStorage.query(query, top_k): get_collection raises when there is
\* no collection; collection.query returns the n_results nearest, best first,
\* with their cosine distances, and every one of them is returned.
ChromaQuery(query, top_k) ==
    /\ vecBackend = "chroma"
    /\ LET embedding == EmbeddingFunc(<<query>>)[1]
           sim(id) == CosineSimilarity(vecStore[id].vector, embedding)
       IN IF ~ vecCollection
          THEN VecQueryReturn(query, top_k, Raised)
          ELSE \E ids \in NearestIds(vecStore, embedding, top_k) :
                 VecQueryReturn(query, top_k,
                   Value([i \in DOMAIN ids |->
                            [id |-> ids[i], distance |-> 100 - sim(ids[i])]]))

VecNext ==
    \/ VecUpsertEmpty /\ UNCHANGED notVec
    \/ \E data \in VecDatas : NanoUpsertStart(data) /\ UNCHANGED notVec
    \/ \E data \in VecDatas, ok \in BOOLEAN :
          ChromaUpsertStart(data, ok) /\ UNCHANGED notVec
    \/ \E b \in 1..(MaxItems + 1) : EmbedDone(b) /\ UNCHANGED notVec
    \/ \E b \in 1..(MaxItems + 1) : EmbedFail(b) /\ UNCHANGED notVec
    \/ NanoUpsertFinish /\ UNCHANGED notVec
    \/ \E f \in 0..(MaxItems + 1) : ChromaUpsertFinish(f) /\ UNCHANGED notVec

\* The queries.
VecQueryNext ==
    \/ \E query \in Queries, top_k \in 1..MaxTopK :
          NanoQuery(query, top_k) /\ UNCHANGED notVec
    \/ \E query \in Queries, top_k \in 1..MaxTopK :
          ChromaQuery(query, top_k) /\ UNCHANGED notVec

\* What one upsert of data into an empty store of the class leaves in it.
StoredBy(backend, meta_fields, data) ==
    EngineUpsert(EmptyDict,
      [i \in DOMAIN data |->
         Entry(data[i].id,
               IF backend = "nano" THEN MetaDoc(MetaOf(data[i].value, meta_fields))
               ELSE IF meta_fields # {}
                    THEN JsonDoc(MetaOf(data[i].value, meta_fields))
                    ELSE TextDoc(data[i].value.content),
               EmbeddingFunc(<<data[i].value.content>>)[1])])

\* An instance constructed on the store an earlier session left: the storage
\* file of NanoVectorDB, the collection on the Chroma server (or none).
VecInitStored ==
    /\ vecBackend \in {"nano", "chroma"}
    /\ vecBatchSize \in 1..MaxBatch
    /\ vecMetaFields \in {{}, {"content"}}
    /\ vecStore \in {StoredBy(vecBackend, vecMetaFields, data) : data \in VecDatas}
    /\ vecCollection \in {c \in BOOLEAN : /\ c => vecBackend = "chroma"
                                          /\ vecStore # EmptyDict => c}
    /\ vecPc = "idle"
    /\ vecData = <<>>
    /\ vecIds = <<>>
    /\ vecTasks = <<>>
    /\ vecOrder = <<>>
    /\ vecEmbedCalls = <<>>
    /\ vecEngineCalls = <<>>
    /\ vecRet = None
    /\ vecFault = "none"
    /\ vecQuery = NoQuery

------------------------------------------------------------------------------
(* Node ids: Python str values, as sequences of character codes             *)
(*   32 space, 38 &, 45 -, 59 ;, 62 >, 65 A, 77 M, 80 P, 97 a, 109 m, 112 p *)

IdSpaceA == <<32, 97>>                                   \* " a"
IdUpperA == <<65>>                                       \* "A"
IdAmpAmp == <<38, 97, 109, 112, 59, 97, 109, 112, 59>>   \* "&amp;amp;"

NodeIds == {IdSpaceA, IdUpperA, IdAmpAmp}

\* a < b for two str values: the first differing code decides, and a proper
\* prefix is smaller.
StrLess(a, b) ==
    \E i \in 1..(Len(a) + 1) :
        /\ \A j \in 1..(i - 1) : j <= Len(b) /\ a[j] = b[j]
        /\ IF i <= Len(a) THEN i <= Len(b) /\ a[i] < b[i] ELSE i <= Len(b)

\* str.upper()
Upper(str) ==
    [i \in DOMAIN str |-> IF str[i] \in 97..122 THEN str[i] - 32 ELSE str[i]]

Whitespace == {9, 10, 11, 12, 13, 28, 29, 30, 31, 32}

RECURSIVE LStrip(_)
LStrip(str) ==
    IF str # <<>> /\ Head(str) \in Whitespace THEN LStrip(Tail(str)) ELSE str

RECURSIVE RStrip(_)
RStrip(str) ==
    IF str # <<>> /\ str[Len(str)] \in Whitespace
    THEN RStrip(SubSeq(str, 1, Len(str) - 1))
    ELSE str

\* str.strip()
Strip(str) == RStrip(LStrip(str))

\* html.unescape, for the one character reference the ids hold: "&amp" or
\* "&AMP", with or without the ";", becomes "&"; the scan goes on after the
\* reference, so the "&" it wrote is not read again.
RECURSIVE Unescape(_)
Unescape(str) ==
    IF str = <<>> THEN <<>>
    ELSE IF /\ Head(str) = 38
            /\ Len(str) >= 4
            /\ SubSeq(str, 2, 4) \in {<<97, 109, 112>>, <<65, 77, 80>>}
         THEN LET after == IF Len(str) >= 5 /\ str[5] = 59 THEN 6 ELSE 5
              IN <<38>> \o Unescape(SubSeq(str, after, Len(str)))
         ELSE <<Head(str)>> \o Unescape(Tail(str))

\* html.unescape(node.upper().strip())
NormalizeId(node) == Unescape(Strip(Upper(node)))

------------------------------------------------------------------------------
(* networkx.Graph and networkx.DiGraph *)

\* The property dicts of nodes and edges.
GraphProps == {EmptyDict, [w |-> 1]}

\* nx.Graph() / nx.DiGraph(): nodes is the insertion order of the nodes,
\* adj[n] the neighbours (successors) of n in insertion order, edata the edge
\* dicts (an undirected edge under both orientations).
EmptyGraph(directed) ==
    [directed |-> directed, nodes |-> <<>>, ndata |-> EmptyDict,
     adj |-> EmptyDict, edata |-> EmptyDict]

HasNode(g, n) == n \in DOMAIN g.ndata

HasEdge(g, u, v) == <<u, v>> \in DOMAIN g.edata

\* A faulty variant of AddNode: the attributes replace the node's dict.
AddNodeReplace(g, n, attrs) ==
    IF n \in DOMAIN g.ndata
    THEN [g EXCEPT !.ndata = (n :> attrs) @@ @]
    ELSE [g EXCEPT !.nodes = Append(@, n),
                   !.ndata = (n :> attrs) @@ @,
                   !.adj = (n :> <<>>) @@ @]

\* G.add_node(n, **attrs)
AddNode(g, n, attrs) ==
    IF HasNode(g, n)
    THEN [g EXCEPT !.ndata = (n :> (attrs @@ g.ndata[n])) @@ @]
    ELSE [g EXCEPT !.nodes = Append(@, n),
                   !.ndata = (n :> attrs) @@ @,
                   !.adj = (n :> <<>>) @@ @]

\* A faulty variant of AddEdge: the edge is recorded, its endpoints are not created.
AddEdgeDangling(g, u, v, attrs) ==
    LET datadict == attrs @@ (IF <<u, v>> \in DOMAIN g.edata THEN g.edata[<<u, v>>]
                              ELSE EmptyDict)
        edata1 == (<<u, v>> :> datadict) @@ g.edata
    IN [g EXCEPT !.edata = IF g.directed THEN edata1
                           ELSE (<<v, u>> :> datadict) @@ edata1]

\* G.add_edge(u, v, **attrs)
AddEdge(g, u, v, attrs) ==
    LET g1 == IF HasNode(g, u) THEN g ELSE AddNode(g, u, EmptyDict)
        g2 == IF HasNode(g1, v) THEN g1 ELSE AddNode(g1, v, EmptyDict)
        datadict == attrs @@ (IF HasEdge(g2, u, v) THEN g2.edata[<<u, v>>]
                              ELSE EmptyDict)
        put(adj, a, b) ==
            IF b \in Range(adj[a]) THEN adj
            ELSE (a :> Append(adj[a], b)) @@ adj
        adj1 == put(g2.adj, u, v)
        adj2 == IF g.directed THEN adj1 ELSE put(adj1, v, u)
        edata1 == (<<u, v>> :> datadict) @@ g2.edata
        edata2 == IF g.directed THEN edata1 ELSE (<<v, u>> :> datadict) @@ edata1
    IN [g2 EXCEPT !.adj = adj2, !.edata = edata2]

\* G.add_nodes_from(list of (node, dict))
RECURSIVE AddNodesFrom(_, _)
AddNodesFrom(g, ns) ==
    IF ns = <<>> THEN g
    ELSE AddNodesFrom(AddNode(g, Head(ns)[1], Head(ns)[2]), Tail(ns))

\* G.add_edges_from(list of (u, v, dict))
RECURSIVE AddEdgesFrom(_, _)
AddEdgesFrom(g, es) ==
    IF es = <<>> THEN g
    ELSE AddEdgesFrom(AddEdge(g, Head(es)[1], Head(es)[2], Head(es)[3]), Tail(es))

\* list(G.nodes(data=True))
NodesData(g) == [i \in DOMAIN g.nodes |-> <<g.nodes[i], g.ndata[g.nodes[i]]>>]

\* list(G.edges(data=True)): the nodes in order, each with its neighbours in
\* order; an undirected edge is reported once, from the endpoint met first.
RECURSIVE EdgesFrom(_, _)
EdgesFrom(g, i) ==
    IF i > Len(g.nodes) THEN <<>>
    ELSE LET n == g.nodes[i]
             seen == {g.nodes[j] : j \in 1..(i - 1)}
             nbrs == IF g.directed THEN g.adj[n]
                     ELSE SelectSeq(g.adj[n], LAMBDA m : m \notin seen)
         IN [k \in DOMAIN nbrs |-> <<n, nbrs[k], g.edata[<<n, nbrs[k]>>]>>]
            \o EdgesFrom(g, i + 1)

Edges(g) == EdgesFrom(g, 1)

\* Every (u, v, dict) of the adjacency of g, restricted to the nodes in keep.
AdjacencyItems(g, keep) ==
    LET nodes == SelectSeq(g.nodes, LAMBDA n : n \in keep)
        nbrs(n) == SelectSeq(g.adj[n], LAMBDA m : m \in keep)
    IN Concat([i \in DOMAIN nodes |->
                 [k \in DOMAIN nbrs(nodes[i]) |->
                    <<nodes[i], nbrs(nodes[i])[k],
                      g.edata[<<nodes[i], nbrs(nodes[i])[k]>>]>>]])

\* G.subgraph(keep).copy(): a fresh graph of the same class, the kept nodes
\* added in the order of G, then every item of the kept adjacency added.
SubgraphCopy(g, keep) ==
    LET nodes == SelectSeq(NodesData(g), LAMBDA nd : nd[1] \in keep)
    IN AddEdgesFrom(AddNodesFrom(EmptyGraph(g.directed), nodes),
                    AdjacencyItems(g, keep))

\* G.copy()
Copy(g) == SubgraphCopy(g, DOMAIN g.ndata)

\* The neighbours that connect: for a DiGraph, successors and predecessors
\* (weak connectivity).
Linked(g, n) ==
    Range(g.adj[n]) \cup
    (IF g.directed THEN {m \in DOMAIN g.adj : n \in Range(g.adj[m])} ELSE {})

RECURSIVE Reach(_, _)
Reach(g, S) ==
    LET T == S \cup UNION {Linked(g, n) : n \in S}
    IN IF T = S THEN S ELSE Reach(g, T)

\* The (weakly) connected component of n.
Component(g, n) == Reach(g, {n})

\* max(nx.connected_components(G), key=len): the components come in the order
\* of their first node, and max keeps the first of the largest ones.
LargestComponentNodes(g) ==
    LET size(i) == Cardinality(Component(g, g.nodes[i]))
        first == CHOOSE i \in DOMAIN g.nodes :
                    /\ \A j \in DOMAIN g.nodes : size(j) <= size(i)
                    /\ \A j \in 1..(i - 1) : size(j) < size(i)
    IN Component(g, g.nodes[first])

\* graspologic.utils.largest_connected_component(G)
largest_connected_component(g) == SubgraphCopy(g, LargestComponentNodes(g))

\* nx.relabel_nodes(G, mapping): a fresh graph; the new ids are added in the
\* order of the old nodes, each old node's dict then replaces the dict of its
\* new id, and the edges are added under their new ids.
RECURSIVE UpdateNodeDicts(_, _)
UpdateNodeDicts(ndata, ns) ==
    IF ns = <<>> THEN ndata
    ELSE UpdateNodeDicts((Head(ns)[1] :> Head(ns)[2]) @@ ndata, Tail(ns))

relabel_nodes(g, mapping) ==
    LET old == NodesData(g)
        h0 == AddNodesFrom(EmptyGraph(g.directed),
                           [i \in DOMAIN old |-> <<mapping[old[i][1]], EmptyDict>>])
        h1 == [h0 EXCEPT !.ndata =
                 UpdateNodeDicts(@, [i \in DOMAIN old |->
                                       <<mapping[old[i][1]], old[i][2]>>])]
        es == Edges(g)
        new_edges == [k \in DOMAIN es |->
                        <<mapping[es[k][1]], mapping[es[k][2]], es[k][3]>>]
    IN AddEdgesFrom(h1, new_edges)

\* sorted(items, key=...) on items that carry their key: Python's sort is
\* stable, so an item goes after the items whose key is not larger.
InsertByKey(sorted, e) ==
    LET k == Cardinality({i \in DOMAIN sorted : ~ StrLess(e.key, sorted[i].key)})
    IN SubSeq(sorted, 1, k) \o <<e>> \o SubSeq(sorted, k + 1, Len(sorted))

RECURSIVE SortByKey(_)
SortByKey(items) ==
    IF items = <<>> THEN <<>>
    ELSE InsertByKey(SortByKey(SubSeq(items, 1, Len(items) - 1)),
                     items[Len(items)])

\* sorted_nodes = sorted(graph.nodes(data=True), key=lambda x: x[0])
SortedNodes(g) ==
    LET keyed == SortByKey([i \in DOMAIN g.nodes |->
                              [key |-> g.nodes[i], item |-> NodesData(g)[i]]])
    IN [i \in DOMAIN keyed |-> keyed[i].item]

\* A faulty variant of _sort_source_target: the endpoints are left as they come.
KeepSourceTarget(edge) == edge

\* _sort_source_target(edge)
SortSourceTarget(edge) ==
    IF StrLess(edge[2], edge[1]) THEN <<edge[2], edge[1], edge[3]>> ELSE edge

\* _get_edge_key(source, target): f"{source} -> {target}"
GetEdgeKey(source, target) == source \o <<32, 45, 62, 32>> \o target

\* The edges _stabilize_graph hands to add_edges_from.
SortedEdges(g) ==
    LET es == Edges(g)
        edges == IF g.directed THEN es
                 ELSE [k \in DOMAIN es |-> SortSourceTarget(es[k])]
        keyed == SortByKey([k \in DOMAIN edges |->
                              [key |-> GetEdgeKey(edges[k][1], edges[k][2]),
                               item |-> edges[k]]])
    IN [k \in DOMAIN keyed |-> keyed[k].item]

\* fixed_graph, from the nodes and the edges to insert, in order.
FixedGraph(directed, sorted_nodes, edges) ==
    AddEdgesFrom(AddNodesFrom(EmptyGraph(directed), sorted_nodes), edges)

\* _stabilize_graph(graph)
StabilizeGraph(g) == FixedGraph(g.directed, SortedNodes(g), SortedEdges(g))

\* The graph _stabilize_graph is given by stable_largest_connected_component.
Relabelled(g) ==
    LET lcc == largest_connected_component(Copy(g))
        node_mapping == [node \in DOMAIN lcc.ndata |-> NormalizeId(node)]
    IN relabel_nodes(lcc, node_mapping)

\* stable_largest_connected_component(graph)
StableLCC(g) == StabilizeGraph(Relabelled(g))

------------------------------------------------------------------------------
(* NetworkXStorage *)

\* The most upserts made on one instance.
MaxGraphOps == 3

\* A call with its arguments: the node id (twice) and node_data of
\* upsert_node, the endpoints and edge_data of upsert_edge.
Call(op, source, target, data) ==
    [op |-> op, source |-> source, target |-> target, data |-> data]

\* No canonical graph was computed for the graph as it is now.
NoCanon ==
    [status |-> "none", graph |-> EmptyGraph(FALSE), input |-> EmptyGraph(FALSE),
     sorted_nodes |-> <<>>, edges |-> <<>>]

\* The outcome of stable_largest_connected_component(g): max() of no
\* component raises ValueError; else the fresh graph, with the graph handed to
\* _stabilize_graph and the nodes and edges it inserted, in order.
Canonical(g) ==
    IF g.nodes = <<>>
    THEN [NoCanon EXCEPT !.status = "raised"]
    ELSE LET relabelled == Relabelled(g)
             sorted_nodes == SortedNodes(relabelled)
             edges == SortedEdges(relabelled)
         IN [status |-> "done",
             graph |-> FixedGraph(relabelled.directed, sorted_nodes, edges),
             input |-> relabelled,
             sorted_nodes |-> sorted_nodes,
             edges |-> edges]

\* __post_init__: `preloaded_graph or nx.Graph()`, the preloaded graph being
\* what read_graphml found in the file (an empty graph is falsy, so a graph
\* kept from the file holds a node; a directed graph comes from a file only).
GraphInit ==
    /\ graph \in {EmptyGraph(FALSE), AddNode(EmptyGraph(TRUE), IdUpperA, EmptyDict)}
    /\ graphOps = 0
    /\ graphCall = Call("__post_init__", <<>>, <<>>, EmptyDict)
    /\ canon = NoCanon
    /\ canon2 = NoCanon

\* upsert_node(node_id, node_data)
UpsertNode(node_id, node_data) ==
    /\ graphOps < MaxGraphOps
    /\ graph' = AddNode(graph, node_id, node_data)
    /\ graphOps' = graphOps + 1
    /\ graphCall' = Call("upsert_node", node_id, node_id, node_data)
    /\ canon' = NoCanon
    /\ canon2' = NoCanon

\* upsert_edge(source_node_id, target_node_id, edge_data)
UpsertEdge(source_node_id, target_node_id, edge_data) ==
    /\ graphOps < MaxGraphOps
    /\ graph' = AddEdge(graph, source_node_id, target_node_id, edge_data)
    /\ graphOps' = graphOps + 1
    /\ graphCall' = Call("upsert_edge", source_node_id, target_node_id, edge_data)
    /\ canon' = NoCanon
    /\ canon2' = NoCanon

\* stable_largest_connected_component(self._graph); the result is the
\* caller's, and is kept while the graph is the one it was computed from.
Canonicalize ==
    /\ canon.status = "none"
    /\ canon' = Canonical(graph)
    /\ graphCall' = Call("stable_largest_connected_component", <<>>, <<>>, EmptyDict)
    /\ UNCHANGED <<graph, graphOps, canon2>>

\* stable_largest_connected_component of the graph it returned.
CanonicalizeAgain ==
    /\ canon.status = "done"
    /\ canon2.status = "none"
    /\ canon2' = Canonical(canon.graph)
    /\ UNCHANGED <<graph, graphOps, graphCall, canon>>

\* The ids and the property dicts of the calls that upsert over one another.
UpsertIds == {IdSpaceA, IdUpperA}

UpsertProps == {EmptyDict, [w |-> 1], [w |-> 2, t |-> 1]}

\* The upserts alone, on few ids and with property dicts that share a key.
GraphUpsertNext ==
    \/ \E n \in UpsertIds, d \in UpsertProps : UpsertNode(n, d) /\ UNCHANGED notGraph
    \/ \E u, v \in UpsertIds, d \in UpsertProps :
          UpsertEdge(u, v, d) /\ UNCHANGED notGraph

GraphNext ==
    \/ \E n \in NodeIds, d \in GraphProps : UpsertNode(n, d) /\ UNCHANGED notGraph
    \/ \E u, v \in NodeIds, d \in GraphProps :
          UpsertEdge(u, v, d) /\ UNCHANGED notGraph
    \/ Canonicalize /\ UNCHANGED notGraph
    \/ CanonicalizeAgain /\ UNCHANGED notGraph

------------------------------------------------------------------------------
(* Specifications *)

Init == JsonInit /\ DuckInit /\ VecInit /\ GraphInit

Next ==
    \/ JsonNext
    \/ JsonReadNext
    \/ DuckNext
    \/ VecNext
    \/ VecQueryNext
    \/ GraphNext

Spec == Init /\ [][Next]_vars

\* One instance of each store on its own; the other stores are not constructed.
JsonIdle ==
    /\ jsonFile = NoFile
    /\ jsonData = EmptyDict
    /\ jsonOp = "__post_init__"
    /\ jsonArg = EmptyDict
    /\ jsonRet = None
    /\ jsonRead = NoRead
    /\ jsonCheckpoint = EmptyDict

DuckIdle ==
    /\ duckTable = Table(EmptyDict)
    /\ duckData = {}
    /\ duckOpen = TRUE
    /\ duckOp = "__post_init__"
    /\ duckArg = EmptyDict
    /\ duckRet = None
    /\ duckRead = <<>>

\* No upsert was made on the vector store, a NanoVectorDBStorage.
VecIdle ==
    /\ vecBackend = "nano"
    /\ vecBatchSize = 1
    /\ vecMetaFields = {}
    /\ vecStore = EmptyDict
    /\ vecPc = "idle"
    /\ vecData = <<>>
    /\ vecIds = <<>>
    /\ vecTasks = <<>>
    /\ vecOrder = <<>>
    /\ vecEmbedCalls = <<>>
    /\ vecEngineCalls = <<>>
    /\ vecRet = None
    /\ vecFault = "none"
    /\ vecCollection = FALSE
    /\ vecQuery = NoQuery

\* No call was made on the graph store, which found no file.
GraphIdle ==
    /\ graph = EmptyGraph(FALSE)
    /\ graphOps = 0
    /\ graphCall = Call("__post_init__", <<>>, <<>>, EmptyDict)
    /\ canon = NoCanon
    /\ canon2 = NoCanon

InitJson == JsonInit /\ DuckIdle /\ VecIdle /\ GraphIdle

SpecJson == InitJson /\ [][JsonNext]_vars

\* The writes and the reads of a JsonKVStorage.
SpecJsonRead == InitJson /\ [][JsonNext \/ JsonReadNext]_vars

InitDuck == DuckInit /\ JsonIdle /\ VecIdle /\ GraphIdle

SpecDuck == InitDuck /\ [][DuckNext]_vars

InitVec == VecInit /\ JsonIdle /\ DuckIdle /\ GraphIdle

SpecVec == InitVec /\ [][VecNext]_vars

InitVecQuery == VecInitStored /\ JsonIdle /\ DuckIdle /\ GraphIdle

SpecVecQuery == InitVecQuery /\ [][VecQueryNext]_vars

InitGraph == GraphInit /\ JsonIdle /\ DuckIdle /\ VecIdle

SpecGraph == InitGraph /\ [][GraphNext]_vars

SpecGraphUpsert == InitGraph /\ [][GraphUpsertNext]_vars

------------------------------------------------------------------------------
(* Claims *)

\* C1: JsonKVStorage.upsert is insert-only.  Every upsert leaves each key that
\* was stored before the call with the value it had, and returns exactly the
\* entries of its argument whose keys were not stored before the call.
C1_JsonInsertOnly ==
    [][ jsonOp' = "upsert" =>
          /\ \A k \in DOMAIN jsonData :
                k \in DOMAIN jsonData' /\ jsonData'[k] = jsonData[k]
          /\ jsonRet' = Value([k \in DOMAIN jsonArg' \ DOMAIN jsonData |->
                                  jsonArg'[k]])
          /\ \A k \in DOMAIN jsonArg' \ DOMAIN jsonData :
                jsonData'[k] = jsonArg'[k] ]_vars

\* An upsert that named a stored key with another value (kept) and a key that
\* was not stored (returned).
C1_Witness ==
    /\ jsonOp = "upsert"
    /\ \E k \in DOMAIN jsonArg : jsonData[k] # jsonArg[k]
    /\ \E k \in DOMAIN jsonArg : k \in DOMAIN jsonRet.value

\* C2: DuckDBStorage.upsert is insert-only.  Every upsert that completes
\* leaves each row that was in kv_store before the call with the value it
\* had, and returns exactly the entries of its argument whose keys were not in
\* kv_store before the call.
C2_DuckInsertOnly ==
    [][ (duckOp' = "upsert" /\ duckTable.exists /\ duckRet' # Raised) =>
          /\ \A k \in DOMAIN duckTable.rows :
                /\ k \in DOMAIN duckTable'.rows
                /\ duckTable'.rows[k] = duckTable.rows[k]
          /\ duckRet' = Value([k \in DOMAIN duckArg' \ DOMAIN duckTable.rows |->
                                  duckArg'[k]]) ]_vars

\* C3: NanoVectorDBStorage.upsert keeps every vector with its own record.  The
\* contents are split, in input order, into batches of the batch size (the
\* last one may be shorter), the embedding function is invoked once on each
\* batch and every call is in flight while the upsert waits, and whatever the
\* order the calls complete in, the entry handed to the engine for a key holds
\* the embedding of that key's own content.
C3_VectorOrdering ==
    vecBackend = "nano" =>
      /\ (vecPc = "gather" \/ vecEngineCalls # <<>>) =>
            /\ Concat(vecEmbedCalls) = ContentsOf(vecData)
            /\ \A j \in DOMAIN vecEmbedCalls :
                  /\ Len(vecEmbedCalls[j]) \in 1..vecBatchSize
                  /\ j < Len(vecEmbedCalls) => Len(vecEmbedCalls[j]) = vecBatchSize
            /\ DOMAIN vecTasks = DOMAIN vecEmbedCalls
      /\ vecPc = "gather" => vecEngineCalls = <<>>
      /\ \A c \in DOMAIN vecEngineCalls :
            /\ Len(vecEngineCalls[c]) = Len(vecData)
            /\ \A i \in DOMAIN vecData :
                  /\ vecEngineCalls[c][i].id = vecData[i].id
                  /\ vecEngineCalls[c][i].vector =
                        EmbeddingFunc(<<vecData[i].value.content>>)[1]

\* Two batches of different contents whose calls completed in the reverse
\* order, handed to the engine.
C3_Witness ==
    /\ vecBackend = "nano"
    /\ vecEngineCalls # <<>>
    /\ Len(vecEmbedCalls) >= 2
    /\ vecOrder[1] # 1
    /\ vecData[1].value.content # vecData[2].value.content

\* The node sequence (ids with their properties) and the edge sequence
\* (endpoints with their properties) of two graphs are the same.
SameSequences(g1, g2) ==
    /\ g1.directed = g2.directed
    /\ NodesData(g1) = NodesData(g2)
    /\ Edges(g1) = Edges(g2)

\* Every order of the elements of a sequence.
Reorderings(seq) ==
    {[i \in DOMAIN seq |-> seq[p[i]]] : p \in Permutations(DOMAIN seq)}

\* The graph g, its nodes and then its edges inserted anew in the given orders.
Reinserted(g, node_order, edge_order) ==
    AddEdgesFrom(AddNodesFrom(EmptyGraph(g.directed), node_order), edge_order)

\* C4: canonicalization is deterministic.  Whatever the order the nodes and
\* the edges of the graph were inserted in, stable_largest_connected_component
\* returns the same node sequence and the same edge sequence.
C4_Determinism ==
    canon.status = "done" =>
      \A node_order \in Reorderings(NodesData(graph)) :
        \A edge_order \in Reorderings(Edges(graph)) :
          LET other == Canonical(Reinserted(graph, node_order, edge_order))
          IN other.status = "done" /\ SameSequences(other.graph, canon.graph)

\* C5: canonicalization is idempotent.  stable_largest_connected_component of
\* its own result has the node and edge sequences of that result, and every id
\* of the result is a fixed point of the normalization.
C5_Idempotence ==
    /\ canon.status = "done" =>
          \A n \in Range(canon.graph.nodes) : NormalizeId(n) = n
    /\ canon2.status = "done" => SameSequences(canon2.graph, canon.graph)

\* The components of g that have the most nodes.
LargestComponents(g) ==
    LET comps == {Component(g, n) : n \in DOMAIN g.ndata}
    IN {c \in comps : \A d \in comps : Cardinality(d) <= Cardinality(c)}

\* The smallest id of a set of nodes.
SmallestId(S) == CHOOSE n \in S : \A m \in S : ~ StrLess(m, n)

\* C6: the result holds exactly the nodes and the edges of the component with
\* the most nodes, and among several largest components, of the one that
\* holds the smallest node id.
C6_LargestComponent ==
    canon.status = "done" =>
      LET smallest == SmallestId(UNION LargestComponents(graph))
          kept == Component(graph, smallest)
      IN /\ Range(canon.graph.nodes) = {NormalizeId(n) : n \in kept}
         /\ \A u, v \in kept :
               HasEdge(graph, u, v) =>
                 HasEdge(canon.graph, NormalizeId(u), NormalizeId(v))
         /\ \A e \in DOMAIN canon.graph.edata :
               \E u, v \in kept :
                 /\ HasEdge(graph, u, v)
                 /\ e = <<NormalizeId(u), NormalizeId(v)>>

\* i comes before j in a sequence of (source, target, data) edges only if its
\* "source -> target" string is not the larger one.
AscendingEdgeKeys(edges) ==
    \A i, j \in DOMAIN edges :
        i < j => ~ StrLess(GetEdgeKey(edges[j][1], edges[j][2]),
                           GetEdgeKey(edges[i][1], edges[i][2]))

\* C7: _stabilize_graph orders the edges.  The result is directed exactly if
\* the input is; the nodes are inserted in ascending id order and stay in that
\* order; the edges inserted are the edges of the input, with their
\* properties, in ascending order of "source -> target"; an undirected edge
\* has its smaller endpoint first and a directed edge keeps its direction.
C7_EdgeOrdering ==
    canon.status = "done" =>
      /\ canon.graph.directed = canon.input.directed
      /\ \A i, j \in DOMAIN canon.sorted_nodes :
            i < j => StrLess(canon.sorted_nodes[i][1], canon.sorted_nodes[j][1])
      /\ canon.graph.nodes =
            [i \in DOMAIN canon.sorted_nodes |-> canon.sorted_nodes[i][1]]
      /\ AscendingEdgeKeys(canon.edges)
      /\ Len(canon.edges) = Len(Edges(canon.input))
      /\ \A k \in DOMAIN canon.edges :
            LET e == canon.edges[k] IN
            /\ HasEdge(canon.input, e[1], e[2])
            /\ e[3] = canon.input.edata[<<e[1], e[2]>>]
            /\ canon.input.directed => e \in Range(Edges(canon.input))
            /\ ~ canon.input.directed => ~ StrLess(e[2], e[1])
      /\ \A e \in Range(Edges(canon.input)) :
            \E k \in DOMAIN canon.edges :
                {canon.edges[k][1], canon.edges[k][2]} = {e[1], e[2]}

\* An undirected graph of two edges or more, one of which networkx reports
\* with its larger endpoint first.
C7_Witness ==
    /\ canon.status = "done"
    /\ ~ canon.input.directed
    /\ Len(canon.edges) >= 2
    /\ \E e \in Range(Edges(canon.input)) : StrLess(e[2], e[1])

\* A directed graph with an edge from a larger id to a smaller one, kept.
C7_DirectedCase ==
    /\ canon.status = "done"
    /\ canon.input.directed
    /\ Len(canon.edges) >= 2
    /\ \E e \in Range(canon.edges) : StrLess(e[2], e[1])

\* C8: a failed embedding call fails the whole upsert, in both classes.  The
\* exception reaches the caller, the engine's upsert is not invoked in that
\* call, and the store is left as it was.
C8_EmbeddingFailureAtomic ==
    /\ []((\E b \in DOMAIN vecTasks : vecTasks[b] = "failed") =>
            /\ vecRet = Raised
            /\ vecPc = "idle"
            /\ vecEngineCalls = <<>>)
    /\ [](vecPc = "gather" => vecEngineCalls = <<>>)
    /\ [][(\E b \in DOMAIN vecTasks' : vecTasks'[b] = "failed") =>
            vecStore' = vecStore]_vars

\* A ChromaDBStorage upsert on a store that holds vectors, whose second batch
\* to complete failed.
C8_Witness ==
    /\ vecBackend = "chroma"
    /\ vecStore # EmptyDict
    /\ Len(vecOrder) = 2
    /\ vecTasks[vecOrder[2]] = "failed"
    /\ vecTasks[vecOrder[1]] = "done"

\* C9: upsert({}) of either class returns an empty list, invokes neither the
\* embedding function nor the engine, and leaves the store as it was.
C9_EmptyUpsert ==
    [][ (vecData' = <<>> /\ vecQuery' = NoQuery) =>
          /\ vecRet' = Value(<<>>)
          /\ vecEmbedCalls' = <<>>
          /\ vecEngineCalls' = <<>>
          /\ vecStore' = vecStore
          /\ vecPc' = "idle" ]_vars

\* An empty upsert on a ChromaDBStorage that holds vectors.
C9_Witness ==
    /\ vecBackend = "chroma"
    /\ vecStore # EmptyDict
    /\ vecData = <<>>
    /\ vecRet = Value(<<>>)

\* C10: JsonKVStorage is durable at index_done_callback only.  The file
\* changes in no call but index_done_callback, and an instance constructed
\* after a crash holds the data of the last index_done_callback (the initial
\* content of the file when there was none).
C10_FlushOnlyDurability ==
    /\ [](jsonOp = "restart" => jsonData = jsonCheckpoint)
    /\ [][jsonFile' # jsonFile => jsonOp' = "index_done_callback"]_vars

\* A restart after a flush of some data and a later upsert, whose key is lost.
C10_Witness ==
    /\ jsonOp = "restart"
    /\ jsonCheckpoint # EmptyDict
    /\ \E k \in DOMAIN jsonArg : k \notin DOMAIN jsonData

\* The keys of a list that a record store does not hold.
UnknownKeys(keys, stored) == {k \in Range(keys) : k \notin stored}

\* C11: filter_keys returns the unknown keys.  In both record stores, after
\* any upserts and drops, filter_keys(keys) returns exactly the keys of its
\* argument that are not stored at the time of the call.
C11_FilterKeys ==
    /\ jsonOp = "filter_keys" =>
          jsonRet = Value(UnknownKeys(jsonRead.ids, DOMAIN jsonData))
    /\ duckOp = "filter_keys" =>
          duckRet = Value(UnknownKeys(duckRead, DOMAIN duckTable.rows))

\* The JsonKVStorage half of C11: a key of the argument is returned exactly
\* if self._data does not hold it.
C11_JsonFilterKeys ==
    jsonOp = "filter_keys" =>
      \A k \in Keys :
        k \in jsonRet.value <=>
          (k \in Range(jsonRead.ids) /\ k \notin DOMAIN jsonData)

\* filter_keys on a JsonKVStorage, naming a stored key and a key not stored.
C11_JsonCase ==
    /\ jsonOp = "filter_keys"
    /\ \E k \in Range(jsonRead.ids) : k \in DOMAIN jsonData
    /\ jsonRet.value # {}

\* A record restricted to the fields of an allow-list.
Restricted(record, fields) ==
    [k \in {f \in DOMAIN record : f \in fields} |-> record[k]]

\* C12: JsonKVStorage.get_by_ids is positional.  The result has one entry for
\* each key of the list, in order; the entry is the absent marker exactly if
\* the key is not stored, and is otherwise the stored record, restricted to
\* the allow-list when one is given, also when the record has no fields.
C12_GetByIdsPositional ==
    jsonOp = "get_by_ids" =>
      /\ jsonRet.kind = "value"
      /\ Len(jsonRet.value) = Len(jsonRead.ids)
      /\ \A i \in DOMAIN jsonRead.ids :
            LET id == jsonRead.ids[i] IN
            IF id \notin DOMAIN jsonData
            THEN jsonRet.value[i] = None
            ELSE jsonRet.value[i] =
                   Value(IF jsonRead.fields = None THEN jsonData[id]
                         ELSE Restricted(jsonData[id], jsonRead.fields.value))

\* C12 on the records that hold a field: the stored empty record aside, the
\* result is positional.
C12_NonEmptyRecords ==
    (jsonOp = "get_by_ids" /\ \A k \in DOMAIN jsonData : jsonData[k] # EmptyDict)
      => C12_GetByIdsPositional

\* get_by_ids on a repeated stored key and an absent key, with an allow-list
\* that drops a field.
C12_NonEmptyCase ==
    /\ jsonOp = "get_by_ids"
    /\ jsonRead.fields = Value({"content"})
    /\ Len(jsonRead.ids) = 2
    /\ \A k \in DOMAIN jsonData : jsonData[k] # EmptyDict
    /\ \E i \in 1..2 : jsonRet.value[i] = None
    /\ \E i \in 1..2 : /\ jsonRet.value[i] # None
                         /\ jsonRet.value[i].value # jsonData[jsonRead.ids[i]]

\* C13: drop clears the namespace and is idempotent.  In both record stores a
\* drop succeeds, also after an earlier drop; after it the store holds no
\* key, all_keys reports none and get_by_id finds nothing.
C13_DropIdempotent ==
    /\ jsonOp = "drop" => (jsonRet = None /\ jsonData = EmptyDict)
    /\ duckOp = "drop" => (duckRet = None /\ DOMAIN duckTable.rows = {})
    /\ (~ duckOpen /\ duckOp = "all_keys") => duckRet = Value({})
    /\ (~ duckOpen /\ duckOp = "get_by_id") => duckRet = None

\* The JsonKVStorage half of C13: every drop succeeds and leaves no key, and
\* a drop of an empty store leaves it as it was.
C13_JsonDrop ==
    [][ jsonOp' = "drop" =>
          /\ jsonRet' = None
          /\ jsonData' = EmptyDict
          /\ jsonData = EmptyDict => jsonData' = jsonData ]_vars

\* The dict a node or an edge holds before a call: empty when it is new.
DictBefore(dicts, key) == IF key \in DOMAIN dicts THEN dicts[key] ELSE EmptyDict

\* after is before with the properties of data written over it: every key of
\* data holds the value of data, every other key of before is retained with
\* its value, and there is no further key.
MergedOver(after, before, data) ==
    /\ DOMAIN after = DOMAIN before \cup DOMAIN data
    /\ \A k \in DOMAIN data : after[k] = data[k]
    /\ \A k \in DOMAIN before \ DOMAIN data : after[k] = before[k]

\* Every entry of before other than those under the keys in touched is in
\* after, unchanged.
OthersKept(after, before, touched) ==
    \A key \in DOMAIN before \ touched :
        key \in DOMAIN after /\ after[key] = before[key]

\* The keys under which the edge of a call is held.
EdgeKeys(g, u, v) == IF g.directed THEN {<<u, v>>} ELSE {<<u, v>>, <<v, u>>}

\* C14: graph upsert is merge-overwrite.  upsert_node writes the supplied
\* properties over those the node holds and retains the others; upsert_edge
\* does the same for the edge of its endpoint pair; no other node and no
\* other edge changes.  Over a sequence of calls a node or edge so holds every
\* key ever supplied for it, with the value of the last call supplying it.
C14_MergeOverwrite ==
    [][ /\ graphCall'.op = "upsert_node" =>
              LET n == graphCall'.source IN
              /\ HasNode(graph', n)
              /\ MergedOver(graph'.ndata[n], DictBefore(graph.ndata, n),
                            graphCall'.data)
              /\ OthersKept(graph'.ndata, graph.ndata, {n})
              /\ DOMAIN graph'.ndata = DOMAIN graph.ndata \cup {n}
              /\ graph'.edata = graph.edata
        /\ graphCall'.op = "upsert_edge" =>
              LET u == graphCall'.source
                  v == graphCall'.target
              IN /\ HasEdge(graph', u, v)
                 /\ \A e \in EdgeKeys(graph, u, v) :
                       /\ e \in DOMAIN graph'.edata
                       /\ MergedOver(graph'.edata[e], DictBefore(graph.edata, <<u, v>>),
                                     graphCall'.data)
                 /\ OthersKept(graph'.edata, graph.edata, EdgeKeys(graph, u, v))
                 /\ DOMAIN graph'.edata = DOMAIN graph.edata \cup EdgeKeys(graph, u, v)
                 /\ OthersKept(graph'.ndata, graph.ndata, {}) ]_vars

\* A node that held w = 2 and t = 1 and was upserted with w = 1: w is
\* overwritten and t is retained, and an edge that holds a property is left
\* as it was.
C14_Witness ==
    /\ graphCall.op = "upsert_node"
    /\ graphCall.data = [w |-> 1]
    /\ graph.ndata[graphCall.source] = [w |-> 1, t |-> 1]
    /\ \E e \in DOMAIN graph.edata : graph.edata[e] # EmptyDict

\* The same for an edge of an undirected graph, upserted first from one
\* endpoint and then from the other.
C14_EdgeCase ==
    /\ graphCall.op = "upsert_edge"
    /\ graphCall.data = [w |-> 1]
    /\ graphCall.source # graphCall.target
    /\ ~ graph.directed
    /\ graph.edata[<<graphCall.target, graphCall.source>>] = [w |-> 1, t |-> 1]
    /\ \E n \in DOMAIN graph.ndata : graph.ndata[n] # EmptyDict

\* C15: backend failures are surfaced.  When get_or_create_collection or the
\* engine's upsert fails during ChromaDBStorage.upsert, the call fails in the
\* caller's hands, and none of its records is left written.
C15_FailuresSurfaced ==
    /\ [](vecFault # "none" => vecRet = Raised)
    /\ [][vecFault' # "none" => vecStore' = vecStore]_vars

\* The upserts in which no backend call fails report it: an upsert returns
\* normally only if it met no backend failure or swallowed one.
C15_SwallowedOnly ==
    (vecBackend = "chroma" /\ vecFault # "none") => vecRet = Value(<<>>)

\* The cosine similarity of a stored id to the text of the last query.
SimilarityToQuery(id) ==
    CosineSimilarity(vecStore[id].vector, EmbeddingFunc(<<vecQuery.text>>)[1])

\* C16: vector query is bounded and thresholded.  A query of either class
\* returns at most top_k results, best match first, and none whose cosine
\* distance from the query exceeds the configured threshold: of stored vectors
\* at distance 0.1 and 0.5, with threshold 0.2, only the first is returned.
C16_QueryBounded ==
    (vecQuery # NoQuery /\ vecQuery.ret # Raised) =>
      LET results == vecQuery.ret.value IN
      /\ Len(results) <= vecQuery.top_k
      /\ \A i, j \in DOMAIN results :
            i < j => SimilarityToQuery(results[i].id) >= SimilarityToQuery(results[j].id)
      /\ \A i \in DOMAIN results :
            100 - SimilarityToQuery(results[i].id) <= cosine_better_than_threshold

\* The part of C16 that holds: at most top_k results, best match first, and
\* for NanoVectorDBStorage none whose similarity is below the threshold.
C16_TopKBestFirst ==
    (vecQuery # NoQuery /\ vecQuery.ret # Raised) =>
      LET results == vecQuery.ret.value IN
      /\ Len(results) <= vecQuery.top_k
      /\ \A i, j \in DOMAIN results :
            i < j => SimilarityToQuery(results[i].id) >= SimilarityToQuery(results[j].id)
      /\ vecBackend = "nano" =>
            \A i \in DOMAIN results :
                SimilarityToQuery(results[i].id) >= cosine_better_than_threshold

\* A query with more stored vectors than top_k, and one of two results of
\* different similarity.
C16_TopKCase ==
    /\ vecQuery # NoQuery
    /\ vecQuery.ret # Raised
    /\ \/ Cardinality(DOMAIN vecStore) > vecQuery.top_k
       \/ /\ Len(vecQuery.ret.value) = 2
          /\ vecQuery.ret.value[1].distance # vecQuery.ret.value[2].distance

\* The items of a data whose ids a store does not hold, in order.
NewItems(data, store) == SelectSeq(data, LAMBDA item : item.id \notin DOMAIN store)

\* What a ChromaDBStorage of the given meta_fields stores for an item: the
\* document and the embedding of the item's own content.
OwnEntry(item, meta_fields) ==
    [doc |-> IF meta_fields # {} THEN JsonDoc(MetaOf(item.value, meta_fields))
             ELSE TextDoc(item.value.content),
     vector |-> EmbeddingFunc(<<item.value.content>>)[1]]

\* A ChromaDBStorage upsert of a data that is not empty returns to its
\* caller, having met no failure of the backend or of the embedding.
ChromaUpsertReturns ==
    /\ vecBackend = "chroma"
    /\ vecPc' = "idle"
    /\ vecData' # <<>>
    /\ vecFault' = "none"
    /\ vecRet' # Raised
    /\ vecQuery' = NoQuery

\* The upsert wrote exactly the new items of its data, each under its own id
\* with its own document and embedding, left the stored ids as they were and
\* returned the ids it wrote.
WroteNewItemsAligned ==
    LET new == NewItems(vecData', vecStore) IN
    /\ vecRet' = Value([i \in DOMAIN new |-> new[i].id])
    /\ DOMAIN vecStore' = DOMAIN vecStore \cup {new[i].id : i \in DOMAIN new}
    /\ \A id \in DOMAIN vecStore : vecStore'[id] = vecStore[id]
    /\ \A i \in DOMAIN new :
          /\ new[i].id \in DOMAIN vecStore'
          /\ vecStore'[new[i].id] = OwnEntry(new[i], vecMetaFields)

\* C17: ChromaDBStorage.upsert keeps ids, contents and vectors aligned under
\* deduplication.  When the data mixes ids the collection holds with new ids,
\* the call completes, writes every new id with the document and embedding of
\* its own content, leaves the held ids as they were, and returns exactly the
\* ids it wrote.
C17_AlignedUnderDedup ==
    [][ ( /\ ChromaUpsertReturns
          /\ NewItems(vecData', vecStore) # <<>>
          /\ NewItems(vecData', vecStore) # vecData' )
        => WroteNewItemsAligned ]_vars

\* C17 without deduplication: when the collection holds none of the ids, the
\* upsert writes every item aligned and returns all the ids.
C17_AllNew ==
    [][ (ChromaUpsertReturns /\ NewItems(vecData', vecStore) = vecData')
        => WroteNewItemsAligned ]_vars

\* An upsert of two new items of different contents in two batches.
C17_AllNewCase ==
    /\ vecBackend = "chroma"
    /\ vecPc = "idle"
    /\ Len(vecData) = 2
    /\ vecData[1].value.content # vecData[2].value.content
    /\ vecRet = Value(<<vecData[1].id, vecData[2].id>>)
    /\ Len(vecEmbedCalls) = 2

\* C18: ChromaDBStorage.upsert embeds only what is new.  The embedding
\* function is invoked on the contents of the ids the collection does not
\* hold, in order, and on nothing else; when it holds every id of the data,
\* the embedding function is not invoked.
C18_EmbedOnlyNew ==
    /\ (vecBackend = "chroma" /\ vecPc = "gather") =>
          Concat(vecEmbedCalls) = ContentsOf(NewItems(vecData, vecStore))
    /\ (vecBackend = "chroma" /\ vecPc = "idle" /\ vecData # <<>>
          /\ vecRet = Value([i \in DOMAIN vecData |-> vecData[i].id])
          /\ vecEngineCalls = <<>>) =>
          vecEmbedCalls = <<>>

\* The part of C18 that holds: the new ids are known before the embedding
\* function is invoked (they are the ids the upsert goes on with), and a
\* data of stored ids only invokes no embedding.
C18_NewIdsKnownFirst ==
    /\ (vecBackend = "chroma" /\ vecPc = "gather") =>
          /\ vecIds = MissingIds(vecData, vecStore)
          /\ vecIds # <<>>
    /\ (vecBackend = "chroma" /\ vecPc = "idle" /\ vecData # <<>>
          /\ vecFault = "none" /\ NewItems(vecData, vecStore) = <<>>
          /\ vecTasks = <<>>) =>
          vecEmbedCalls = <<>>

\* An upsert of stored ids only, which returned before any embedding.
C18_AllStoredCase ==
    /\ vecBackend = "chroma"
    /\ vecPc = "idle"
    /\ vecData # <<>>
    /\ vecFault = "none"
    /\ vecTasks = <<>>
    /\ vecEmbedCalls = <<>>
    /\ vecRet = Value([i \in DOMAIN vecData |-> vecData[i].id])

\* The nodes of the component that stable_largest_connected_component keeps.
KeptNodes(g) == LargestComponentNodes(Copy(g))

\* Two or more kept nodes of g normalize to the same id.
HasCollision(g) ==
    \E n, m \in KeptNodes(g) : n # m /\ NormalizeId(n) = NormalizeId(m)

\* Every edge between kept nodes is an edge of the result, between the
\* normalized ids, and the result has one node for each normalized id.
EdgesOfAllKept(g, result) ==
    /\ DOMAIN result.ndata = {NormalizeId(n) : n \in KeptNodes(g)}
    /\ Len(result.nodes) = Cardinality(DOMAIN result.ndata)
    /\ \A u, v \in KeptNodes(g) :
          HasEdge(g, u, v) => HasEdge(result, NormalizeId(u), NormalizeId(v))

\* C19: colliding normalized ids are merged deterministically.  When kept
\* nodes normalize to the same id, the result has a single node for them,
\* which keeps the edges of all of them, and the properties of the nodes of
\* the result are the same whatever the order the nodes were inserted in.
C19_CollisionMerge ==
    (canon.status = "done" /\ HasCollision(graph)) =>
      /\ EdgesOfAllKept(graph, canon.graph)
      /\ \A node_order \in Reorderings(NodesData(graph)) :
            LET other == Reinserted(graph, node_order, Edges(graph)) IN
            KeptNodes(other) = KeptNodes(graph) =>
              Canonical(other).graph.ndata = canon.graph.ndata

\* The part of C19 that holds: a single node for the colliding ids, with the
\* edges of all of them.
C19_EdgesKept ==
    (canon.status = "done" /\ HasCollision(graph)) =>
      EdgesOfAllKept(graph, canon.graph)

\* Three kept nodes of which two collide, each linked to the third.
C19_EdgesKeptCase ==
    /\ canon.status = "done"
    /\ HasCollision(graph)
    /\ Cardinality(KeptNodes(graph)) = 3
    /\ Len(Edges(canon.graph)) = 1

\* C20: no dangling edges in NetworkXStorage.  After any upserts, both
\* endpoints of every edge are nodes (has_edge implies has_node of each);
\* upsert_edge creates an endpoint that is no node yet, with no properties,
\* and leaves the properties of an endpoint that is a node as they are.
C20_NoDanglingEdges ==
    /\ [](\A u, v \in NodeIds :
            HasEdge(graph, u, v) => (HasNode(graph, u) /\ HasNode(graph, v)))
    /\ [][ graphCall'.op = "upsert_edge" =>
            \A n \in {graphCall'.source, graphCall'.target} :
                /\ HasNode(graph', n)
                /\ graph'.ndata[n] = DictBefore(graph.ndata, n) ]_vars

\* An edge upserted between a node that holds a property and an id that was
\* never upserted as a node.
C20_Witness ==
    /\ graphCall.op = "upsert_edge"
    /\ graphOps = 2
    /\ ~ graph.directed
    /\ graphCall.source # graphCall.target
    /\ HasEdge(graph, graphCall.target, graphCall.source)
    /\ graph.ndata[graphCall.source] = [w |-> 1]
    /\ graph.ndata[graphCall.target] = EmptyDict

====
